---- MODULE Spec2Model ----
(***************************************************************************)
(* Sprite visibility controller of src/modules/hide-sprite.js (the         *)
(* four-state version, lines 1-558; the two-state version of lines 560-879 *)
(* is modelled further down): the three module-level maps, the             *)
(* asset lists loaded by initHideSprite, the part of the host DOM the      *)
(* controller reads and writes, and the MutationObserver record queues.    *)
(*                                                                         *)
(* Scheduling.  The controller runs on the UI thread.  toggleHideSprite    *)
(* is a click handler (a task); a MutationObserver callback is a           *)
(* microtask, so every queued record is delivered before the next task     *)
(* starts.  A host script may change the DOM several times before its      *)
(* task ends, so host steps may follow each other while records wait.      *)
(***************************************************************************)
EXTENDS Integers, Sequences, FiniteSets, TLC

VARIABLES
    spriteStates,        \* Map spriteId -> state (line 13)
    originalSrcMap,      \* Map spriteId -> src (line 14)
    spriteObservers,     \* Map spriteId -> MutationObserver (line 16)
    placeholderImages,   \* line 15
    dummyFemaleImages,   \* line 19
    dummyMaleImages,     \* line 20
    dummyAvailability,   \* line 21
    initPc,              \* position of the async initHideSprite (lines 548-551)
    domExists,           \* ids of the sprite containers present in the document
    domImgs,             \* spriteId -> sequence of <img> nodes, in document order
    focusMarks,          \* the containers carrying .prome-sprite-focus
    toastr,              \* the warnings shown to the user so far
    hostOps,             \* number of host DOM changes so far (bounded)
    hostChange,          \* history: spriteId -> src of the host's latest image
                         \* replacement not yet delivered to the watcher, or None
    last,                \* history: what the step just taken was, when it was a
                         \* watcher callback or a reset (see Ordinary)
    trip,                \* history of SpecCycle: the src the focused image had
                         \* before the first advance, and the advances made;
                         \* of SpecQuiesce: the parity of the callbacks run
    btn,                 \* the #prome-hide-sprite-btn elements: how many there
                         \* are, and the classes and title of the first
    rightSendForm,       \* whether #rightSendForm is in the document
    setupWatch,          \* the document.body observers of setupHideSpriteButton,
                         \* one per call (lines 538-542)
    old                  \* SpecRefine: the two-state controller of lines 560-879
                         \* run side by side on a document of its own

vars == <<spriteStates, originalSrcMap, spriteObservers, placeholderImages,
          dummyFemaleImages, dummyMaleImages, dummyAvailability, initPc,
          domExists, domImgs, focusMarks, toastr, hostOps, hostChange, last,
          trip, btn, rightSendForm, setupWatch, old>>

ctrlVars == <<spriteStates, originalSrcMap, spriteObservers>>
uiVars == <<btn, rightSendForm, setupWatch>>
assetVars == <<placeholderImages, dummyFemaleImages, dummyMaleImages,
               dummyAvailability, initPc>>

-----------------------------------------------------------------------------
(* Bounds of the model. *)

MaxImgs == 2         \* <img> nodes per sprite container
MaxHostOps == 2      \* host DOM changes in one behaviour
RandMax == 2         \* Math.random() takes the values u / RandMax, u \in 0..RandMax-1
MaxSetups == 2       \* calls of setupHideSpriteButton in one behaviour

-----------------------------------------------------------------------------
(* SPRITE_STATES, lines 5-10. *)

MAIN == 0
DUMMY_FEMALE == 1
DUMMY_MALE == 2
INVISIBLE == 3

None == "<none>"

\* Values of the history variable last: a step that is neither a watcher
\* callback nor a reset leaves Ordinary.
\* After a reset: the identities that were tracked and originalSrcMap as the
\* reset found them.  After a callback: the identity it re-applied (if any)
\* and the host replacement it delivered (if any).
Ordinary == [op |-> "", ids |-> {}, h |-> None, orig |-> <<>>]
AfterReset(ids, orig) ==
    [op |-> "resetHiddenSprites", ids |-> ids, h |-> None, orig |-> orig]
AfterCallback(ids, h) ==
    [op |-> "watcherCallback", ids |-> ids, h |-> h, orig |-> <<>>]

\* The history variable trip outside SpecCycle.
NoTrip == [start |-> None, n |-> 0]

\* The variable old outside SpecRefine: the two-state module as loaded
\* (lines 564-567), without a document.
NoOld == [hiddenSpriteIds |-> {}, originalSrcMap |-> <<>>, spriteObservers |-> <<>>,
          domImgs |-> <<>>, toastr |-> {}]

(* JavaScript maps as functions on the set of their keys. *)
EmptyMap == <<>>
Has(m, k) == k \in DOMAIN m
MapSet(m, k, v) == [x \in (DOMAIN m) \cup {k} |-> IF x = k THEN v ELSE m[x]]
MapDelete(m, k) == [x \in (DOMAIN m) \ {k} |-> m[x]]

-----------------------------------------------------------------------------
(* The host side: what the document can hold. *)

\* Containers: the solo expression holder (getExpressionHolderSelector), the
\* user sprite and the group sprites of #visual-novel-wrapper in document order.
SoloId == "expression"
UserId == "expression-prome-user"
GroupOrder == <<"sprite-1", "sprite-2">>
GroupIds == {GroupOrder[i] : i \in 1..Len(GroupOrder)}
AllIds == {SoloId, UserId} \cup GroupIds
\* The containers of the document of Spec: a solo holder and a group sprite.
SpriteIds == {SoloId, GroupOrder[1]}

\* The src every image starts with, and the src values the host gives an
\* image later; "" is an image with an empty src.
InitialRef == "/characters/Bob/happy.png"
HostRefs == {"", "/characters/Bob/sad.png"}
\* The src of an image the host inserts: a new image shows something.
InsertRefs == HostRefs \ {""}

Img(s, v) == [src |-> s, visibility |-> v]

\* Asset descriptors returned by getSpriteList: a bare filename, or an object.
FileName(f) == [kind |-> "string", name |-> f, path |-> "", label |-> ""]
FileObject(p, l, n) == [kind |-> "object", name |-> n, path |-> p, label |-> l]

PlaceholderListings == { <<>>, <<FileName("ph.png")>> }
DummyFemaleListings == { <<>>, <<FileName("f1.png"), FileName("f2.png")>> }
DummyMaleListings == { <<>>, <<FileName("m1.png")>> }
\* Placeholder listings of descriptor objects, as the host's API returns
\* them: with a path, or with a label and a name only.
DescriptorListings ==
    { <<FileObject("/characters/Placeholder/blank.webp", "blank", "blank.webp"),
        FileName("other.png")>>,
      <<FileObject("", "clear", "clear.png")>> }

Rand == 0 .. (RandMax - 1)

-----------------------------------------------------------------------------
(* Pure helpers. *)

\* getSpritePath, lines 29-44.
getSpritePath(sprite, folderName) ==
    IF sprite.kind = "string"
    THEN "/characters/" \o folderName \o "/" \o sprite.name
    ELSE IF sprite.kind = "object"
         THEN IF sprite.path # ""
              THEN sprite.path
              ELSE LET filename == IF sprite.label # "" THEN sprite.label
                                   ELSE sprite.name
                   IN  "/characters/" \o folderName \o "/" \o filename
         ELSE ""

\* A placeholder path taken from the end of the list.  C16 tells it from
\* getPlaceholderPath.
getLastPlaceholderPath ==
    IF Len(placeholderImages) > 0
    THEN getSpritePath(placeholderImages[Len(placeholderImages)], "Placeholder")
    ELSE ""

\* getPlaceholderPath, lines 49-54.
getPlaceholderPath ==
    IF Len(placeholderImages) > 0
    THEN getSpritePath(placeholderImages[1], "Placeholder")
    ELSE ""

\* Math.floor(Math.random() * n) for Math.random() = u / RandMax, as a
\* 1-based index.
randomIndex(u, n) == ((u * n) \div RandMax) + 1

\* getDummyFemalePath, lines 59-65.
getDummyFemalePath(u) ==
    IF Len(dummyFemaleImages) > 0
    THEN getSpritePath(dummyFemaleImages[randomIndex(u, Len(dummyFemaleImages))],
                       "Dummy-Female")
    ELSE ""

\* getDummyMalePath, lines 70-76.
getDummyMalePath(u) ==
    IF Len(dummyMaleImages) > 0
    THEN getSpritePath(dummyMaleImages[randomIndex(u, Len(dummyMaleImages))],
                       "Dummy-Male")
    ELSE ""

\* getSpriteSrcForState, lines 84-97; orig is originalSrcMap when it is read.
getSpriteSrcForState(state, spriteId, orig, u) ==
    CASE state = MAIN -> IF Has(orig, spriteId) THEN orig[spriteId] ELSE ""
      [] state = DUMMY_FEMALE -> getDummyFemalePath(u)
      [] state = DUMMY_MALE -> getDummyMalePath(u)
      [] state = INVISIBLE -> getPlaceholderPath
      [] OTHER -> ""

\* The stateOrder array of getNextState, lines 145-150.
stateOrder == <<MAIN, DUMMY_FEMALE, DUMMY_MALE, INVISIBLE>>

indexOf(seq, x) == CHOOSE i \in 1..Len(seq) : seq[i] = x

\* A cycle that never skips: the state after the current one, whatever the
\* asset lists hold.  C8 tells it from skipUnavailable.
takeFollowing(nextIndex) == stateOrder[nextIndex]

\* The skipping loop of getNextState, lines 155-168 (nextIndex is 1-based).
RECURSIVE skipUnavailable(_)
skipUnavailable(nextIndex) ==
    LET nextState == stateOrder[nextIndex]
        following == (nextIndex % Len(stateOrder)) + 1
    IN  IF nextState = DUMMY_FEMALE /\ ~dummyAvailability.female
        THEN skipUnavailable(following)
        ELSE IF nextState = DUMMY_MALE /\ ~dummyAvailability.male
             THEN skipUnavailable(following)
             ELSE nextState

\* A next state computed without the "+ 1" of line 152.  C18 tells it from
\* getNextState.
getNextStateFromCurrent(current) ==
    skipUnavailable(indexOf(stateOrder, current))

\* getNextState, lines 144-169.
getNextState(current) ==
    skipUnavailable((indexOf(stateOrder, current) % Len(stateOrder)) + 1)

\* spriteStates.get(spriteId) || SPRITE_STATES.MAIN, lines 417 and 446.
stateOrMain(spriteId) ==
    IF Has(spriteStates, spriteId) /\ spriteStates[spriteId] # 0
    THEN spriteStates[spriteId]
    ELSE MAIN

-----------------------------------------------------------------------------
(* MutationObserver: an observer is connected or not and holds a queue of  *)
(* records; the callback of lines 255-283 reads no more of a record than   *)
(* its kind.                                                               *)

IMG_ADDED == "childList:addedNodes:IMG"     \* lines 263-269
SRC_CHANGED == "attributes:src:IMG"         \* lines 272-276
OTHER_CHANGE == "childList:other"           \* a record neither test matches

Observer(c, r) == [connected |-> c, records |-> r]

\* A change inside container spriteId: queued for its connected observer
\* (observer.observe(container, {childList, subtree, attributes, src})).
QueueRecord(obs, spriteId, kind) ==
    IF Has(obs, spriteId) /\ obs[spriteId].connected
    THEN [obs EXCEPT ![spriteId].records = @ \cup {kind}]
    ELSE obs

\* Records wait for delivery.
Pending(spriteId) ==
    /\ Has(spriteObservers, spriteId)
    /\ spriteObservers[spriteId].connected
    /\ spriteObservers[spriteId].records # {}

NoPending == \A id \in SpriteIds : ~Pending(id)

\* observeSpriteChanges, lines 246-293: the old observer is disconnected
\* (its queue is emptied) and a new one is registered on the container.
observeSpriteChanges(obs, spriteId) ==
    IF spriteId \in domExists
    THEN MapSet(obs, spriteId, Observer(TRUE, {}))
    ELSE IF Has(obs, spriteId)
         THEN [obs EXCEPT ![spriteId] = Observer(FALSE, {})]
         ELSE obs

\* A stop that leaves the observer registered and connected.  C4 tells it
\* from stopObservingSprite.
keepObserving(obs, spriteId) == obs

\* A stop that disconnects and forgets every observer.  C23 tells it from
\* stopObservingSprite.
stopEveryObserver(obs, spriteId) == EmptyMap

\* stopObservingSprite, lines 298-303.
stopObservingSprite(obs, spriteId) ==
    IF Has(obs, spriteId) THEN MapDelete(obs, spriteId) ELSE obs

-----------------------------------------------------------------------------
(* Reading the document. *)

\* A resolver that looks at the user sprite before the solo holder.  C17
\* tells it from getFocusedSprite.
getFocusedSpriteUserFirst ==
    LET groupFocused == {i \in 1..Len(GroupOrder) :
                            /\ GroupOrder[i] \in domExists
                            /\ GroupOrder[i] \in focusMarks}
        groupSprites == {i \in 1..Len(GroupOrder) :
                            /\ GroupOrder[i] \in domExists
                            /\ Len(domImgs[GroupOrder[i]]) > 0}
        least(S) == CHOOSE i \in S : \A j \in S : i <= j
    IN  IF groupFocused # {}
        THEN GroupOrder[least(groupFocused)]
        ELSE IF UserId \in domExists /\ UserId \in focusMarks
        THEN UserId
        ELSE IF SoloId \in domExists /\ SoloId \in focusMarks
        THEN SoloId
        ELSE IF SoloId \in domExists /\ Len(domImgs[SoloId]) > 0
        THEN SoloId
        ELSE IF groupSprites # {}
        THEN GroupOrder[least(groupSprites)]
        ELSE None

\* The first element of a jQuery selection: the least index in document order.
first(indices) == CHOOSE i \in indices : \A j \in indices : i <= j

\* getFocusedSprite, lines 349-384.
getFocusedSprite ==
    LET groupFocused == {i \in 1..Len(GroupOrder) :
                            /\ GroupOrder[i] \in domExists
                            /\ GroupOrder[i] \in focusMarks}
        groupSprites == {i \in 1..Len(GroupOrder) :
                            /\ GroupOrder[i] \in domExists
                            /\ Len(domImgs[GroupOrder[i]]) > 0}
    IN  IF groupFocused # {}
        THEN GroupOrder[first(groupFocused)]
        ELSE IF SoloId \in domExists /\ SoloId \in focusMarks
        THEN SoloId
        ELSE IF UserId \in domExists /\ UserId \in focusMarks
        THEN UserId
        ELSE IF SoloId \in domExists /\ Len(domImgs[SoloId]) > 0
        THEN SoloId
        ELSE IF groupSprites # {}
        THEN GroupOrder[first(groupSprites)]
        ELSE None

\* getSpriteImage, lines 391-400: the index of the first <img> of the
\* container, or 0 for null (a container is a <div>, never itself an <img>).
getSpriteImage(spriteId) ==
    IF Len(domImgs[spriteId]) > 0 THEN 1 ELSE 0

-----------------------------------------------------------------------------
(* The button. *)

\* getIconForState, lines 104-117.
getIconForState(state) ==
    CASE state = MAIN -> "fa-eye"
      [] state = DUMMY_FEMALE -> "fa-venus"
      [] state = DUMMY_MALE -> "fa-mars"
      [] state = INVISIBLE -> "fa-eye-slash"
      [] OTHER -> "fa-eye"

\* getTooltipForState, lines 124-137.
getTooltipForState(state) ==
    CASE state = MAIN -> "Sprite: Main (click to cycle)"
      [] state = DUMMY_FEMALE -> "Sprite: Dummy Female (click to cycle)"
      [] state = DUMMY_MALE -> "Sprite: Dummy Male (click to cycle)"
      [] state = INVISIBLE -> "Sprite: Invisible (click to cycle)"
      [] OTHER -> "Toggle sprite visibility (Prome)"

\* No button in the document, and the button addButton creates (lines
\* 521-527).
NoButton == [count |-> 0, classes |-> {}, title |-> ""]
NewButton ==
    [count |-> 1, classes |-> {"fa-solid", "fa-eye", "interactable"},
     title |-> "Toggle sprite visibility (Prome)"]

\* updateButtonIcon, lines 405-425, reading the state map as the caller left
\* it: the button afterwards.
updateButtonIcon(states) ==
    IF btn.count = 0
    THEN btn
    ELSE IF getFocusedSprite = None
    THEN [btn EXCEPT !.classes = (@ \ {"fa-eye-slash", "fa-venus", "fa-mars"})
                                    \cup {"fa-eye"},
                     !.title = "Toggle sprite visibility (Prome)"]
    ELSE LET spriteId == getFocusedSprite
             state == IF Has(states, spriteId) /\ states[spriteId] # 0
                      THEN states[spriteId]
                      ELSE MAIN
         IN  [btn EXCEPT !.classes = (@ \ {"fa-eye", "fa-eye-slash", "fa-venus",
                                           "fa-mars"})
                                        \cup {getIconForState(state)},
                         !.title = getTooltipForState(state)]

-----------------------------------------------------------------------------
(* Writing the document. *)

\* An application that never gives the visible style back.  C19 tells it
\* from applySpriteState.
applyKeepingStyle(spriteId, img, state, orig, u) ==
    LET src == getSpriteSrcForState(state, spriteId, orig, u)
    IN  IF state = INVISIBLE /\ src = ""
        THEN [img |-> Img(img.src, "hidden"), wrote |-> FALSE]
        ELSE IF src # ""
             THEN [img |-> Img(src, img.visibility), wrote |-> TRUE]
             ELSE [img |-> img, wrote |-> FALSE]

\* applySpriteState, lines 178-197: the image after the call, and whether
\* its src attribute was written.
applySpriteState(spriteId, img, state, orig, u) ==
    LET src == getSpriteSrcForState(state, spriteId, orig, u)
    IN  IF state = INVISIBLE
        THEN IF src # ""
             THEN [img |-> Img(src, "visible"), wrote |-> TRUE]
             ELSE [img |-> Img(img.src, "hidden"), wrote |-> FALSE]
        ELSE IF src # ""
             THEN [img |-> Img(src, "visible"), wrote |-> TRUE]
             ELSE [img |-> Img(img.src, "visible"), wrote |-> FALSE]

\* One pass of the imgs.each loop of reapplySpriteState, lines 213-240, from
\* image i on; acc carries the images, originalSrcMap and whether a src
\* attribute was written.
RECURSIVE reapplyEach(_, _, _, _, _)
reapplyEach(spriteId, state, src, i, acc) ==
    IF i > Len(acc.imgs)
    THEN acc
    ELSE LET currentSrc == acc.imgs[i].src
         IN  IF state = INVISIBLE
             THEN LET orig1 == IF currentSrc # ""
                               THEN MapSet(acc.orig, spriteId, currentSrc)
                               ELSE acc.orig
                  IN  IF src # ""
                      THEN reapplyEach(spriteId, state, src, i + 1,
                             [imgs |-> [acc.imgs EXCEPT ![i] = Img(src, "visible")],
                              orig |-> orig1, wrote |-> TRUE])
                      ELSE reapplyEach(spriteId, state, src, i + 1,
                             [imgs |-> [acc.imgs EXCEPT ![i] = Img(currentSrc, "hidden")],
                              orig |-> orig1, wrote |-> acc.wrote])
             ELSE IF currentSrc # "" /\ currentSrc # src
                  THEN reapplyEach(spriteId, state, src, i + 1,
                         [imgs |-> [acc.imgs EXCEPT ![i] =
                                      Img(IF src # "" THEN src ELSE currentSrc, "visible")],
                          orig |-> MapSet(acc.orig, spriteId, currentSrc),
                          wrote |-> acc.wrote \/ src # ""])
                  ELSE reapplyEach(spriteId, state, src, i + 1,
                         [imgs |-> [acc.imgs EXCEPT ![i] = Img(currentSrc, "visible")],
                          orig |-> acc.orig, wrote |-> acc.wrote])

\* reapplySpriteState, lines 203-241.
reapplySpriteState(spriteId, u) ==
    LET unchanged == [imgs |-> domImgs[spriteId], orig |-> originalSrcMap,
                      wrote |-> FALSE]
    IN  IF spriteId \notin domExists
        THEN unchanged
        ELSE IF ~Has(spriteStates, spriteId) \/ spriteStates[spriteId] = MAIN
        THEN unchanged
        ELSE LET state == spriteStates[spriteId]
                 src == getSpriteSrcForState(state, spriteId, originalSrcMap, u)
             IN  reapplyEach(spriteId, state, src, 1, unchanged)

-----------------------------------------------------------------------------
(* Initial state: the module is loaded (lines 13-21), initHideSprite has   *)
(* been called and awaits its first listing; each container holds one      *)
(* image the host has set.                                                 *)

Init ==
    /\ spriteStates = EmptyMap
    /\ originalSrcMap = EmptyMap
    /\ spriteObservers = EmptyMap
    /\ placeholderImages = <<>>
    /\ dummyFemaleImages = <<>>
    /\ dummyMaleImages = <<>>
    /\ dummyAvailability = [female |-> FALSE, male |-> FALSE]
    /\ initPc = "fetchPlaceholderImages"
    /\ domExists = SpriteIds
    /\ domImgs = [id \in SpriteIds |-> <<Img(InitialRef, "visible")>>]
    /\ focusMarks = {}
    /\ toastr = {}
    /\ hostOps = 0
    /\ hostChange = [id \in SpriteIds |-> None]
    /\ last = Ordinary
    /\ trip = NoTrip
    /\ btn = NoButton
    /\ rightSendForm = FALSE
    /\ setupWatch = <<>>
    /\ old = NoOld

-----------------------------------------------------------------------------
(* initHideSprite, lines 548-551: three listings awaited one after the     *)
(* other.  An outcome of getSpriteList: a listing, or a rejection.         *)

Resolved(list) == [ok |-> TRUE, list |-> list]
Rejected == [ok |-> FALSE, list |-> <<>>]
Outcomes(listings) == {Resolved(l) : l \in listings} \cup {Rejected}

\* What a fetch leaves in its list (lines 310/314, 324/329, 335/340) and in
\* dummyAvailability (lines 325/330, 336/341).
listAfter(result) == IF result.ok THEN result.list ELSE <<>>

\* A catch block that marks the alternate available.  C13 tells it from
\* availableAfter.
availableAfterFailure(result) == IF result.ok THEN Len(result.list) > 0 ELSE TRUE

availableAfter(result) == IF result.ok THEN Len(result.list) > 0 ELSE FALSE

\* fetchPlaceholderImages, lines 308-316.
fetchPlaceholderImages(result) ==
    /\ initPc = "fetchPlaceholderImages"
    /\ placeholderImages' = listAfter(result)
    /\ initPc' = "fetchDummyFemale"
    /\ UNCHANGED <<ctrlVars, dummyFemaleImages, dummyMaleImages, dummyAvailability,
                   domExists, domImgs, focusMarks, toastr, hostOps, hostChange>>
    /\ last' = Ordinary /\ UNCHANGED <<trip, old, uiVars>>

\* fetchDummyImages, Dummy-Female half, lines 323-331.
fetchDummyFemale(result) ==
    /\ initPc = "fetchDummyFemale"
    /\ dummyFemaleImages' = listAfter(result)
    /\ dummyAvailability' = [dummyAvailability EXCEPT !.female = availableAfter(result)]
    /\ initPc' = "fetchDummyMale"
    /\ UNCHANGED <<ctrlVars, placeholderImages, dummyMaleImages,
                   domExists, domImgs, focusMarks, toastr, hostOps, hostChange>>
    /\ last' = Ordinary /\ UNCHANGED <<trip, old, uiVars>>

\* fetchDummyImages, Dummy-Male half, lines 334-342.
fetchDummyMale(result) ==
    /\ initPc = "fetchDummyMale"
    /\ dummyMaleImages' = listAfter(result)
    /\ dummyAvailability' = [dummyAvailability EXCEPT !.male = availableAfter(result)]
    /\ initPc' = "done"
    /\ UNCHANGED <<ctrlVars, placeholderImages, dummyFemaleImages,
                   domExists, domImgs, focusMarks, toastr, hostOps, hostChange>>
    /\ last' = Ordinary /\ UNCHANGED <<trip, old, uiVars>>

-----------------------------------------------------------------------------
(* The controller's handlers. *)

\* State tracking that forgets to delete the original-reference entry on
\* the way back to MAIN.  C5 tells it from updateStateTracking.
trackKeepingOriginal(spriteId, nextState, orig, obs) ==
    IF nextState = MAIN
    THEN [states |-> MapDelete(spriteStates, spriteId),
          orig |-> orig,
          obs |-> stopObservingSprite(obs, spriteId)]
    ELSE [states |-> MapSet(spriteStates, spriteId, nextState),
          orig |-> orig,
          obs |-> observeSpriteChanges(obs, spriteId)]

\* "Update state tracking" of toggleHideSprite, lines 459-471: the three maps
\* after the call, from originalSrcMap (orig) and spriteObservers (obs) as the
\* earlier statements of the handler left them.
updateStateTracking(spriteId, nextState, orig, obs) ==
    IF nextState = MAIN
    THEN [states |-> MapDelete(spriteStates, spriteId),
          orig |-> MapDelete(orig, spriteId),
          obs |-> stopObservingSprite(obs, spriteId)]
    ELSE [states |-> MapSet(spriteStates, spriteId, nextState),
          orig |-> orig,
          obs |-> observeSpriteChanges(obs, spriteId)]

\* A warning that is never shown.  C11 tells it from toastrWarning.
noWarning(message) == toastr

\* toastr.warning(message, extensionName), line 433: the warnings on screen.
toastrWarning(message) == toastr \cup {message}

\* toggleHideSprite, lines 430-474, run as a task; u is the value of
\* Math.random() drawn by getDummyFemalePath / getDummyMalePath.
toggleHideSpriteBody(u) ==
    /\ NoPending
    /\ LET focusedSprite == getFocusedSprite
       IN  IF focusedSprite = None
           THEN /\ toastr' = toastrWarning("No focused sprite to hide.")
                /\ UNCHANGED <<ctrlVars, domImgs, btn>>
           ELSE LET spriteId == focusedSprite
                    img == getSpriteImage(spriteId)
                IN  IF img = 0
                    THEN \* console.error (line 441): nothing on screen
                         UNCHANGED <<ctrlVars, domImgs, toastr, btn>>
                    ELSE LET currentState == stateOrMain(spriteId)
                             orig1 == IF currentState = MAIN
                                      THEN MapSet(originalSrcMap, spriteId,
                                                  domImgs[spriteId][img].src)
                                      ELSE originalSrcMap
                             nextState == getNextState(currentState)
                             applied == applySpriteState(spriteId, domImgs[spriteId][img],
                                                         nextState, orig1, u)
                             obs1 == IF applied.wrote
                                     THEN QueueRecord(spriteObservers, spriteId, SRC_CHANGED)
                                     ELSE spriteObservers
                             tracked == updateStateTracking(spriteId, nextState,
                                                            orig1, obs1)
                         IN  /\ domImgs' = [domImgs EXCEPT ![spriteId][img] = applied.img]
                             /\ toastr' = toastr
                             /\ spriteStates' = tracked.states
                             /\ originalSrcMap' = tracked.orig
                             /\ spriteObservers' = tracked.obs
                             /\ btn' = updateButtonIcon(tracked.states)
    /\ last' = Ordinary
    /\ UNCHANGED <<assetVars, domExists, focusMarks, hostOps, hostChange,
                   rightSendForm, setupWatch>>

toggleHideSprite(u) == toggleHideSpriteBody(u) /\ UNCHANGED <<trip, old>>

\* The MutationObserver callback of observeSpriteChanges, lines 255-283,
\* delivering the queued records of the observer of spriteId.
watcherCallbackBody(spriteId, u) ==
    /\ Pending(spriteId)
    /\ LET records == spriteObservers[spriteId].records
           emptied == [spriteObservers EXCEPT ![spriteId].records = {}]
           needsReapply == IMG_ADDED \in records \/ SRC_CHANGED \in records
       IN  IF ~Has(spriteStates, spriteId) \/ spriteStates[spriteId] = MAIN
           THEN /\ spriteObservers' = emptied
                /\ last' = AfterCallback({}, hostChange[spriteId])
                /\ UNCHANGED <<originalSrcMap, domImgs>>
           ELSE IF needsReapply
                THEN LET done == reapplySpriteState(spriteId, u)
                     IN  /\ domImgs' = [domImgs EXCEPT ![spriteId] = done.imgs]
                         /\ originalSrcMap' = done.orig
                         /\ spriteObservers' =
                              IF done.wrote
                              THEN QueueRecord(emptied, spriteId, SRC_CHANGED)
                              ELSE emptied
                         /\ last' = AfterCallback({spriteId}, hostChange[spriteId])
                ELSE /\ spriteObservers' = emptied
                     /\ last' = AfterCallback({}, hostChange[spriteId])
                     /\ UNCHANGED <<originalSrcMap, domImgs>>
    /\ hostChange' = [hostChange EXCEPT ![spriteId] = None]
    /\ UNCHANGED <<spriteStates, assetVars, domExists, focusMarks, toastr, hostOps,
                   uiVars>>

watcherCallback(spriteId, u) ==
    watcherCallbackBody(spriteId, u) /\ UNCHANGED <<trip, old>>

\* A reset that keeps its observers.  C9 tells it from stopAllObservers.
keepAllObservers == spriteObservers

\* "Stop all observers first" of resetHiddenSprites, lines 481-484: every
\* observer is disconnected and the map cleared.
stopAllObservers == EmptyMap

\* A restore loop that writes no src and no style.  C10 tells it from
\* restoreOriginals.
restoreNothing == domImgs

\* The restore loop of resetHiddenSprites, lines 487-496, over the keys of
\* originalSrcMap.
restoreOriginals ==
    [id \in SpriteIds |->
        IF Has(originalSrcMap, id) /\ id \in domExists
           /\ getSpriteImage(id) # 0
        THEN [domImgs[id] EXCEPT ![getSpriteImage(id)] =
                                   Img(originalSrcMap[id], "visible")]
        ELSE domImgs[id]]

\* resetHiddenSprites, lines 479-502.
resetHiddenSpritesBody ==
    /\ spriteObservers' = stopAllObservers
    /\ domImgs' = restoreOriginals
    /\ spriteStates' = EmptyMap
    /\ originalSrcMap' = EmptyMap
    /\ hostChange' = [id \in SpriteIds |-> None]
    /\ last' = AfterReset(DOMAIN spriteStates, originalSrcMap)
    /\ btn' = updateButtonIcon(EmptyMap)
    /\ UNCHANGED <<trip, rightSendForm, setupWatch>>
    /\ UNCHANGED <<assetVars, domExists, focusMarks, toastr, hostOps>>

resetHiddenSprites == resetHiddenSpritesBody /\ UNCHANGED old

-----------------------------------------------------------------------------
(* setupHideSpriteButton, lines 514-543, and its document.body observer.   *)

\* A body observer: connected until its timer fires, with or without
\* records waiting for its callback.
BodyWatch(c, r) == [connected |-> c, records |-> r]

\* A childList change somewhere below document.body: a record for every
\* connected body observer (observe(document.body, {childList, subtree})).
NotifyBody(watches) ==
    [i \in 1..Len(watches) |->
        IF watches[i].connected THEN BodyWatch(TRUE, TRUE) ELSE watches[i]]

\* An addButton without the "already exists" test.  C15 tells it from
\* addButton.
addButtonAgain(b) ==
    IF ~rightSendForm THEN b ELSE [NewButton EXCEPT !.count = b.count + 1]

\* addButton, lines 515-532: the button afterwards.
addButton(b) ==
    IF b.count > 0
    THEN b
    ELSE IF ~rightSendForm
    THEN b
    ELSE [NewButton EXCEPT !.count = b.count + 1]

\* setupHideSpriteButton, lines 514-543: addButton at once, then a new
\* observer on document.body and its 10 s timer.
setupHideSpriteButton ==
    /\ Len(setupWatch) < MaxSetups
    /\ btn' = addButton(btn)
    /\ setupWatch' = Append(IF addButton(btn) # btn
                            THEN NotifyBody(setupWatch)
                            ELSE setupWatch,
                            BodyWatch(TRUE, FALSE))
    /\ last' = Ordinary
    /\ UNCHANGED <<ctrlVars, assetVars, domExists, domImgs, focusMarks, toastr,
                   hostOps, hostChange, trip, old, rightSendForm>>

\* The callback of body observer i, line 538: addButton.
setupWatchCallback(i) ==
    /\ i \in 1..Len(setupWatch)
    /\ setupWatch[i].connected /\ setupWatch[i].records
    /\ btn' = addButton(btn)
    /\ LET delivered == [setupWatch EXCEPT ![i].records = FALSE]
       IN  setupWatch' = IF addButton(btn) # btn
                         THEN NotifyBody(delivered)
                         ELSE delivered
    /\ last' = Ordinary
    /\ UNCHANGED <<ctrlVars, assetVars, domExists, domImgs, focusMarks, toastr,
                   hostOps, hostChange, trip, old, rightSendForm>>

\* The timer of body observer i, line 542: observer.disconnect().
setupTimeout(i) ==
    /\ i \in 1..Len(setupWatch)
    /\ setupWatch[i].connected
    /\ setupWatch' = [setupWatch EXCEPT ![i] = BodyWatch(FALSE, FALSE)]
    /\ last' = Ordinary
    /\ UNCHANGED <<ctrlVars, assetVars, domExists, domImgs, focusMarks, toastr,
                   hostOps, hostChange, trip, old, btn, rightSendForm>>

\* syncHideSpriteButtonState, lines 556-558.
syncHideSpriteButtonState ==
    /\ btn' = updateButtonIcon(spriteStates)
    /\ last' = Ordinary
    /\ UNCHANGED <<ctrlVars, assetVars, domExists, domImgs, focusMarks, toastr,
                   hostOps, hostChange, trip, old, rightSendForm, setupWatch>>

\* The host puts #rightSendForm into the document, or takes it out with
\* the button inside it.
HostAddForm ==
    /\ ~rightSendForm
    /\ rightSendForm' = TRUE
    /\ setupWatch' = NotifyBody(setupWatch)
    /\ last' = Ordinary
    /\ UNCHANGED <<ctrlVars, assetVars, domExists, domImgs, focusMarks, toastr,
                   hostOps, hostChange, trip, old, btn>>

HostRemoveForm ==
    /\ rightSendForm
    /\ rightSendForm' = FALSE
    /\ btn' = NoButton
    /\ setupWatch' = NotifyBody(setupWatch)
    /\ last' = Ordinary
    /\ UNCHANGED <<ctrlVars, assetVars, domExists, domImgs, focusMarks, toastr,
                   hostOps, hostChange, trip, old>>

-----------------------------------------------------------------------------
(* The host application: it re-renders sprites whenever it likes. *)

HostMayAct == hostOps < MaxHostOps

NoteHostChange(spriteId, h) ==
    IF Has(spriteObservers, spriteId) /\ spriteObservers[spriteId].connected
    THEN [hostChange EXCEPT ![spriteId] = h]
    ELSE hostChange

\* The host sets the src of image k of a container.
HostSetSrcBody(spriteId, k, h) ==
    /\ HostMayAct
    /\ spriteId \in domExists
    /\ k \in 1..Len(domImgs[spriteId])
    /\ domImgs' = [domImgs EXCEPT ![spriteId][k].src = h]
    /\ spriteObservers' = QueueRecord(spriteObservers, spriteId, SRC_CHANGED)
    /\ hostChange' = NoteHostChange(spriteId, h)
    /\ hostOps' = hostOps + 1
    /\ last' = Ordinary /\ UNCHANGED <<trip, uiVars>>
    /\ UNCHANGED <<spriteStates, originalSrcMap, assetVars, domExists, focusMarks, toastr>>

HostSetSrc(spriteId, k, h) == HostSetSrcBody(spriteId, k, h) /\ UNCHANGED old

\* The host inserts a new image before or after the images of a container.
HostInsertImgBody(spriteId, atFront, h) ==
    /\ HostMayAct
    /\ spriteId \in domExists
    /\ Len(domImgs[spriteId]) < MaxImgs
    /\ domImgs' = [domImgs EXCEPT ![spriteId] =
                     IF atFront THEN <<Img(h, "visible")>> \o @
                     ELSE Append(@, Img(h, "visible"))]
    /\ spriteObservers' = QueueRecord(spriteObservers, spriteId, IMG_ADDED)
    /\ hostChange' = NoteHostChange(spriteId, h)
    /\ hostOps' = hostOps + 1
    /\ last' = Ordinary /\ UNCHANGED <<trip, btn, rightSendForm>>
    /\ setupWatch' = NotifyBody(setupWatch)
    /\ UNCHANGED <<spriteStates, originalSrcMap, assetVars, domExists, focusMarks, toastr>>

HostInsertImg(spriteId, atFront, h) ==
    HostInsertImgBody(spriteId, atFront, h) /\ UNCHANGED old

\* The host removes image k of a container.
HostRemoveImg(spriteId, k) ==
    /\ HostMayAct
    /\ spriteId \in domExists
    /\ k \in 1..Len(domImgs[spriteId])
    /\ domImgs' = [domImgs EXCEPT ![spriteId] =
                     SubSeq(@, 1, k - 1) \o SubSeq(@, k + 1, Len(@))]
    /\ spriteObservers' = QueueRecord(spriteObservers, spriteId, OTHER_CHANGE)
    /\ hostOps' = hostOps + 1
    /\ last' = Ordinary /\ UNCHANGED <<trip, old, btn, rightSendForm>>
    /\ setupWatch' = NotifyBody(setupWatch)
    /\ UNCHANGED <<spriteStates, originalSrcMap, assetVars, domExists, focusMarks,
                   toastr, hostChange>>

\* The host removes a container from the document; its observer keeps
\* watching the detached node, which nothing changes any more.
HostRemoveElement(spriteId) ==
    /\ HostMayAct
    /\ spriteId \in domExists
    /\ domExists' = domExists \ {spriteId}
    /\ domImgs' = [domImgs EXCEPT ![spriteId] = <<>>]
    /\ focusMarks' = focusMarks \ {spriteId}
    /\ hostOps' = hostOps + 1
    /\ last' = Ordinary /\ UNCHANGED <<trip, old, btn, rightSendForm>>
    /\ setupWatch' = NotifyBody(setupWatch)
    /\ UNCHANGED <<ctrlVars, assetVars, toastr, hostChange>>

\* The host moves the .prome-sprite-focus class: one of its DOM changes.
HostSetFocus(mark) ==
    /\ HostMayAct
    /\ mark \in domExists \cup {None}
    /\ focusMarks # (IF mark = None THEN {} ELSE {mark})
    /\ focusMarks' = IF mark = None THEN {} ELSE {mark}
    /\ hostOps' = hostOps + 1
    /\ last' = Ordinary /\ UNCHANGED <<trip, old, uiVars>>
    /\ UNCHANGED <<ctrlVars, assetVars, domExists, domImgs, toastr, hostChange>>

-----------------------------------------------------------------------------

Next ==
    \/ \E r \in Outcomes(PlaceholderListings) : fetchPlaceholderImages(r)
    \/ \E r \in Outcomes(DummyFemaleListings) : fetchDummyFemale(r)
    \/ \E r \in Outcomes(DummyMaleListings) : fetchDummyMale(r)
    \/ \E u \in Rand : toggleHideSprite(u)
    \/ \E id \in SpriteIds, u \in Rand : watcherCallback(id, u)
    \/ resetHiddenSprites
    \/ \E id \in SpriteIds, k \in 1..MaxImgs, h \in HostRefs : HostSetSrc(id, k, h)
    \/ \E id \in SpriteIds, f \in BOOLEAN, h \in InsertRefs : HostInsertImg(id, f, h)
    \/ \E id \in SpriteIds, k \in 1..MaxImgs : HostRemoveImg(id, k)
    \/ \E id \in SpriteIds : HostRemoveElement(id)
    \/ \E m \in SpriteIds \cup {None} : HostSetFocus(m)

Spec == Init /\ [][Next]_vars

TypeOK ==
    /\ DOMAIN spriteStates \subseteq SpriteIds
    /\ \A id \in DOMAIN spriteStates : spriteStates[id] \in 0..3
    /\ DOMAIN originalSrcMap \subseteq SpriteIds
    /\ DOMAIN spriteObservers \subseteq SpriteIds
    /\ hostOps \in 0..MaxHostOps

-----------------------------------------------------------------------------
(* SpecCycle: advances in a row.  initHideSprite has resolved with some    *)
(* outcome of each listing, every container holds one image with a src the *)
(* host can give it, and the only step is toggleHideSprite on the focused  *)
(* sprite; trip counts the advances and remembers the src before the first.*)

\* The states of the cycle that are available: MAIN, INVISIBLE and each
\* alternate whose asset list is non-empty.
availableStates ==
    2 + (IF Len(dummyFemaleImages) > 0 THEN 1 ELSE 0)
      + (IF Len(dummyMaleImages) > 0 THEN 1 ELSE 0)

InitCycle ==
    /\ spriteStates = EmptyMap
    /\ originalSrcMap = EmptyMap
    /\ spriteObservers = EmptyMap
    /\ \E p \in Outcomes(PlaceholderListings \cup DescriptorListings), f \in Outcomes(DummyFemaleListings),
          m \in Outcomes(DummyMaleListings) :
         /\ placeholderImages = listAfter(p)
         /\ dummyFemaleImages = listAfter(f)
         /\ dummyMaleImages = listAfter(m)
         /\ dummyAvailability = [female |-> availableAfter(f), male |-> availableAfter(m)]
    /\ initPc = "done"
    /\ domExists = SpriteIds
    /\ domImgs \in [SpriteIds -> {<<Img(h, "visible")>> : h \in {InitialRef} \cup HostRefs}]
    /\ focusMarks \in {{}} \cup {{id} : id \in SpriteIds}
    /\ toastr = {}
    /\ hostOps = 0
    /\ hostChange = [id \in SpriteIds |-> None]
    /\ last = Ordinary
    /\ trip = [start |-> domImgs[getFocusedSprite][1].src, n |-> 0]
    /\ btn = NoButton
    /\ rightSendForm = FALSE
    /\ setupWatch = <<>>
    /\ old = NoOld

advance(u) ==
    /\ trip.n < availableStates
    /\ toggleHideSpriteBody(u)
    /\ trip' = [trip EXCEPT !.n = @ + 1]
    /\ UNCHANGED old

NextCycle == \E u \in Rand : advance(u)

SpecCycle == InitCycle /\ [][NextCycle]_vars

-----------------------------------------------------------------------------
(* SpecButton: the button.  initHideSprite has resolved, the host puts     *)
(* #rightSendForm in and out, setupHideSpriteButton is called up to        *)
(* MaxSetups times, and the handlers run against a document in which the   *)
(* host moves the focus and removes images and containers.                 *)

InitButton ==
    /\ spriteStates = EmptyMap
    /\ originalSrcMap = EmptyMap
    /\ spriteObservers = EmptyMap
    /\ \E p \in Outcomes(PlaceholderListings), f \in Outcomes(DummyFemaleListings),
          m \in Outcomes(DummyMaleListings) :
         /\ placeholderImages = listAfter(p)
         /\ dummyFemaleImages = listAfter(f)
         /\ dummyMaleImages = listAfter(m)
         /\ dummyAvailability = [female |-> availableAfter(f), male |-> availableAfter(m)]
    /\ initPc = "done"
    /\ domExists = SpriteIds
    /\ domImgs = [id \in SpriteIds |-> <<Img(InitialRef, "visible")>>]
    /\ focusMarks = {}
    /\ toastr = {}
    /\ hostOps = 0
    /\ hostChange = [id \in SpriteIds |-> None]
    /\ last = Ordinary
    /\ trip = NoTrip
    /\ btn = NoButton
    /\ rightSendForm \in BOOLEAN
    /\ setupWatch = <<>>
    /\ old = NoOld

NextButton ==
    \/ setupHideSpriteButton
    \/ \E i \in 1..MaxSetups : setupWatchCallback(i)
    \/ \E i \in 1..MaxSetups : setupTimeout(i)
    \/ HostAddForm
    \/ HostRemoveForm
    \/ \E u \in Rand : toggleHideSprite(u)
    \/ \E id \in SpriteIds, u \in Rand : watcherCallback(id, u)
    \/ resetHiddenSprites
    \/ syncHideSpriteButtonState
    \/ \E id \in SpriteIds, k \in 1..MaxImgs : HostRemoveImg(id, k)
    \/ \E id \in SpriteIds : HostRemoveElement(id)
    \/ \E m \in SpriteIds \cup {None} : HostSetFocus(m)

SpecButton == InitButton /\ [][NextButton]_vars

-----------------------------------------------------------------------------
(* SpecFocus: getFocusedSprite on every document.  Any of the four         *)
(* containers exists or not, carries the focus class or not, holds an      *)
(* image or not; the one step calls getFocusedSprite and keeps its result. *)

AfterFocus(result) ==
    [op |-> "getFocusedSprite", ids |-> {result}, h |-> None, orig |-> <<>>]

InitFocus ==
    /\ spriteStates = EmptyMap
    /\ originalSrcMap = EmptyMap
    /\ spriteObservers = EmptyMap
    /\ placeholderImages = <<>>
    /\ dummyFemaleImages = <<>>
    /\ dummyMaleImages = <<>>
    /\ dummyAvailability = [female |-> FALSE, male |-> FALSE]
    /\ initPc = "fetchPlaceholderImages"
    /\ domExists \in SUBSET AllIds
    /\ focusMarks \in SUBSET domExists
    /\ domImgs \in [AllIds -> {<<>>, <<Img(InitialRef, "visible")>>}]
    /\ \A id \in AllIds \ domExists : domImgs[id] = <<>>
    /\ toastr = {}
    /\ hostOps = 0
    /\ hostChange = [id \in SpriteIds |-> None]
    /\ last = Ordinary
    /\ trip = NoTrip
    /\ btn = NoButton
    /\ rightSendForm = FALSE
    /\ setupWatch = <<>>
    /\ old = NoOld

callGetFocusedSprite ==
    /\ last = Ordinary
    /\ last' = AfterFocus(getFocusedSprite)
    /\ UNCHANGED <<ctrlVars, assetVars, domExists, domImgs, focusMarks, toastr,
                   hostOps, hostChange, trip, old, uiVars>>

NextFocus == callGetFocusedSprite

SpecFocus == InitFocus /\ [][NextFocus]_vars

-----------------------------------------------------------------------------
(* SpecQuiesce: one host image replacement and the callbacks after it.     *)
(* initHideSprite has resolved; toggleHideSprite runs on the focused       *)
(* sprite until the host replaces the image of an overridden sprite (a new *)
(* src on its image, or a new image node); from then on only watcher       *)
(* callbacks run.  trip.n is the parity of the callbacks run so far.       *)

InitQuiesce ==
    /\ spriteStates = EmptyMap
    /\ originalSrcMap = EmptyMap
    /\ spriteObservers = EmptyMap
    /\ \E p \in Outcomes(PlaceholderListings), f \in Outcomes(DummyFemaleListings),
          m \in Outcomes(DummyMaleListings) :
         /\ placeholderImages = listAfter(p)
         /\ dummyFemaleImages = listAfter(f)
         /\ dummyMaleImages = listAfter(m)
         /\ dummyAvailability = [female |-> availableAfter(f), male |-> availableAfter(m)]
    /\ initPc = "done"
    /\ domExists = SpriteIds
    /\ domImgs = [id \in SpriteIds |-> <<Img(InitialRef, "visible")>>]
    /\ focusMarks \in {{}} \cup {{id} : id \in SpriteIds}
    /\ toastr = {}
    /\ hostOps = 0
    /\ hostChange = [id \in SpriteIds |-> None]
    /\ last = Ordinary
    /\ trip = NoTrip
    /\ btn = NoButton
    /\ rightSendForm = FALSE
    /\ setupWatch = <<>>
    /\ old = NoOld

\* toggleHideSprite before the host's replacement.
override(u) == hostOps = 0 /\ toggleHideSprite(u)

\* The host's one replacement, on a sprite that is not in MAIN.
replaceSrc(spriteId, h) ==
    /\ hostOps = 0
    /\ stateOrMain(spriteId) # MAIN
    /\ HostSetSrc(spriteId, 1, h)

replaceNode(spriteId, atFront, h) ==
    /\ hostOps = 0
    /\ stateOrMain(spriteId) # MAIN
    /\ HostInsertImg(spriteId, atFront, h)

\* A watcher callback, counted.
deliver(spriteId, u) ==
    /\ watcherCallbackBody(spriteId, u)
    /\ trip' = [trip EXCEPT !.n = (@ + 1) % 2]
    /\ UNCHANGED old

NextQuiesce ==
    \/ \E u \in Rand : override(u)
    \/ \E id \in SpriteIds, h \in InsertRefs : replaceSrc(id, h)
    \/ \E id \in SpriteIds, f \in BOOLEAN, h \in InsertRefs : replaceNode(id, f, h)
    \/ \E id \in SpriteIds, u \in Rand : deliver(id, u)

\* A MutationObserver callback with records waiting is run (a microtask);
\* and Math.random() is fair: a draw that would leave no record waiting,
\* possible again and again, is made in the end.
FairQuiesce ==
    /\ WF_vars(\E id \in SpriteIds, u \in Rand : deliver(id, u))
    /\ SF_vars(\E id \in SpriteIds, u \in Rand : deliver(id, u) /\ NoPending')

SpecQuiesce == InitQuiesce /\ [][NextQuiesce]_vars /\ FairQuiesce

-----------------------------------------------------------------------------
(* The two-state controller, lines 560-879 of the same file: the earlier   *)
(* version of the module.  Its state is the record old; its document holds *)
(* the same containers and focus marks as the document of the four-state   *)
(* controller and its own images (old.domImgs, a src per image: this       *)
(* version never touches a style).  Its resolver getFocusedSprite (lines   *)
(* 677-711) is the one of lines 349-384 in a host whose solo holder is     *)
(* #expression-holder, and its observer functions (602-658) are the ones   *)
(* of lines 246-303 word for word.                                         *)

\* A template literal turns a descriptor into a string: a bare filename is
\* itself, an object is "[object Object]" (line 574).
oldToString(sprite) ==
    IF sprite.kind = "string" THEN sprite.name ELSE "[object Object]"

\* getPlaceholderPath, lines 572-577.
oldGetPlaceholderPath ==
    IF Len(placeholderImages) > 0
    THEN "/characters/Placeholder/" \o oldToString(placeholderImages[1])
    ELSE ""

\* The imgs.each loop of applyPlaceholderToSprite, lines 589-596, from image
\* i on.
RECURSIVE oldApplyEach(_, _, _, _)
oldApplyEach(spriteId, placeholderPath, i, acc) ==
    IF i > Len(acc.imgs)
    THEN acc
    ELSE LET currentSrc == acc.imgs[i]
         IN  IF currentSrc # "" /\ currentSrc # placeholderPath
             THEN oldApplyEach(spriteId, placeholderPath, i + 1,
                    [imgs |-> [acc.imgs EXCEPT ![i] = placeholderPath],
                     orig |-> MapSet(acc.orig, spriteId, currentSrc),
                     wrote |-> TRUE])
             ELSE oldApplyEach(spriteId, placeholderPath, i + 1, acc)

\* applyPlaceholderToSprite, lines 582-597.
applyPlaceholderToSprite(o, spriteId) ==
    LET unchanged == [imgs |-> o.domImgs[spriteId], orig |-> o.originalSrcMap,
                      wrote |-> FALSE]
    IN  IF spriteId \notin domExists
        THEN unchanged
        ELSE oldApplyEach(spriteId, oldGetPlaceholderPath, 1, unchanged)

\* toggleHideSprite, lines 755-798: the two-state controller afterwards.
\* There is no button in the document of SpecRefine, so updateButtonIcon
\* returns at line 734.
oldToggleHideSprite(o) ==
    LET focusedSprite == getFocusedSprite
    IN  IF focusedSprite = None
        THEN [o EXCEPT !.toastr = @ \cup {"No focused sprite to hide."}]
        ELSE IF Len(o.domImgs[focusedSprite]) = 0
        THEN o
        ELSE LET spriteId == focusedSprite
             IN  IF spriteId \in o.hiddenSpriteIds
                 THEN LET originalSrc == IF Has(o.originalSrcMap, spriteId)
                                         THEN o.originalSrcMap[spriteId]
                                         ELSE ""
                      IN  [o EXCEPT
                             !.spriteObservers = stopObservingSprite(@, spriteId),
                             !.domImgs = IF originalSrc # ""
                                         THEN [@ EXCEPT ![spriteId][1] = originalSrc]
                                         ELSE @,
                             !.hiddenSpriteIds = @ \ {spriteId},
                             !.originalSrcMap = MapDelete(@, spriteId)]
                 ELSE [o EXCEPT
                         !.originalSrcMap = MapSet(@, spriteId, o.domImgs[spriteId][1]),
                         !.domImgs = [@ EXCEPT ![spriteId][1] = oldGetPlaceholderPath],
                         !.hiddenSpriteIds = @ \cup {spriteId},
                         !.spriteObservers =
                             observeSpriteChanges(
                                 QueueRecord(@, spriteId, SRC_CHANGED), spriteId)]

\* Records wait for the observer of spriteId in the two-state controller.
oldPending(o, spriteId) ==
    /\ Has(o.spriteObservers, spriteId)
    /\ o.spriteObservers[spriteId].connected
    /\ o.spriteObservers[spriteId].records # {}

\* The MutationObserver callback of lines 611-638.
oldWatcherCallback(o, spriteId) ==
    LET records == o.spriteObservers[spriteId].records
        emptied == [o.spriteObservers EXCEPT ![spriteId].records = {}]
        needsReapply == IMG_ADDED \in records \/ SRC_CHANGED \in records
    IN  IF spriteId \notin o.hiddenSpriteIds \/ ~needsReapply
        THEN [o EXCEPT !.spriteObservers = emptied]
        ELSE LET done == applyPlaceholderToSprite(o, spriteId)
             IN  [o EXCEPT
                    !.domImgs = [@ EXCEPT ![spriteId] = done.imgs],
                    !.originalSrcMap = done.orig,
                    !.spriteObservers = IF done.wrote
                                        THEN QueueRecord(emptied, spriteId, SRC_CHANGED)
                                        ELSE emptied]

\* resetHiddenSprites, lines 803-825.
oldResetHiddenSprites(o) ==
    [o EXCEPT
        !.spriteObservers = EmptyMap,
        !.domImgs = [id \in DOMAIN @ |->
                        IF Has(o.originalSrcMap, id) /\ id \in domExists
                           /\ Len(@[id]) > 0
                        THEN [@[id] EXCEPT ![1] = o.originalSrcMap[id]]
                        ELSE @[id]],
        !.hiddenSpriteIds = {},
        !.originalSrcMap = EmptyMap]

\* The host's changes in the document of the two-state controller.
oldHostSetSrc(o, spriteId, k, h) ==
    [o EXCEPT !.domImgs = [@ EXCEPT ![spriteId][k] = h],
              !.spriteObservers = QueueRecord(@, spriteId, SRC_CHANGED)]

oldHostInsertImg(o, spriteId, atFront, h) ==
    [o EXCEPT !.domImgs = [@ EXCEPT ![spriteId] =
                              IF atFront THEN <<h>> \o @ ELSE Append(@, h)],
              !.spriteObservers = QueueRecord(@, spriteId, IMG_ADDED)]

-----------------------------------------------------------------------------
(* SpecRefine: the two controllers side by side.  Both have finished       *)
(* their initialisation with the same non-empty Placeholder listing, the   *)
(* Dummy lists of the four-state controller are empty, and their documents *)
(* start alike.  Every step is the same operation in both: a toggle, a     *)
(* reset, a host replacement of an image (a new non-empty src, or a new    *)
(* image node), a move of the focus, or the watcher callbacks of one       *)
(* container.                                                              *)

InitRefine ==
    /\ spriteStates = EmptyMap
    /\ originalSrcMap = EmptyMap
    /\ spriteObservers = EmptyMap
    /\ placeholderImages \in PlaceholderListings \ {<<>>}
    /\ dummyFemaleImages = <<>>
    /\ dummyMaleImages = <<>>
    /\ dummyAvailability = [female |-> FALSE, male |-> FALSE]
    /\ initPc = "done"
    /\ domExists = SpriteIds
    /\ domImgs = [id \in SpriteIds |-> <<Img(InitialRef, "visible")>>]
    /\ focusMarks \in {{}} \cup {{id} : id \in SpriteIds}
    /\ toastr = {}
    /\ hostOps = 0
    /\ hostChange = [id \in SpriteIds |-> None]
    /\ last = Ordinary
    /\ trip = NoTrip
    /\ btn = NoButton
    /\ rightSendForm = FALSE
    /\ setupWatch = <<>>
    /\ old = [NoOld EXCEPT !.domImgs = [id \in SpriteIds |-> <<InitialRef>>]]

\* No callback of the two-state controller is waiting.
oldNoPending == \A id \in SpriteIds : ~oldPending(old, id)

bothToggle(u) ==
    /\ oldNoPending
    /\ toggleHideSpriteBody(u)
    /\ old' = oldToggleHideSprite(old)
    /\ UNCHANGED trip

bothReset ==
    /\ resetHiddenSpritesBody
    /\ old' = oldResetHiddenSprites(old)

bothHostSetSrc(spriteId, k, h) ==
    /\ HostSetSrcBody(spriteId, k, h)
    /\ old' = oldHostSetSrc(old, spriteId, k, h)

bothHostInsertImg(spriteId, atFront, h) ==
    /\ HostInsertImgBody(spriteId, atFront, h)
    /\ old' = oldHostInsertImg(old, spriteId, atFront, h)

\* The callbacks of the observers of one container: of either controller,
\* if it has records waiting.
bothCallback(spriteId, u) ==
    /\ Pending(spriteId) \/ oldPending(old, spriteId)
    /\ IF Pending(spriteId)
       THEN watcherCallbackBody(spriteId, u)
       ELSE /\ last' = AfterCallback({}, hostChange[spriteId])
            /\ UNCHANGED <<ctrlVars, assetVars, domExists, domImgs, focusMarks,
                           toastr, hostOps, hostChange, uiVars>>
    /\ old' = IF oldPending(old, spriteId)
              THEN oldWatcherCallback(old, spriteId)
              ELSE old
    /\ UNCHANGED trip

NextRefine ==
    \/ \E u \in Rand : bothToggle(u)
    \/ bothReset
    \/ \E id \in SpriteIds, k \in 1..MaxImgs, h \in InsertRefs : bothHostSetSrc(id, k, h)
    \/ \E id \in SpriteIds, f \in BOOLEAN, h \in InsertRefs : bothHostInsertImg(id, f, h)
    \/ \E m \in SpriteIds \cup {None} : HostSetFocus(m)
    \/ \E id \in SpriteIds, u \in Rand : bothCallback(id, u)

SpecRefine == InitRefine /\ [][NextRefine]_vars

-----------------------------------------------------------------------------
(* Claims. *)

\* C1: after as many advances in a row as there are available states, the
\* focused identity is back in MAIN, has no state-map and no
\* original-reference entry, and its image has exactly the src it had before
\* the first advance.
C1RoundTrip ==
    trip.n = availableStates =>
        LET id == getFocusedSprite
        IN  /\ ~Has(spriteStates, id)
            /\ ~Has(originalSrcMap, id)
            /\ domImgs[id][1].src = trip.start

\* The same for an image that starts with a non-empty src.
C1RoundTripNonEmpty == trip.start # "" => C1RoundTrip

-----------------------------------------------------------------------------
(* Vocabulary of the claims about overrides. *)

PathsOf(list, folderName) ==
    {getSpritePath(list[i], folderName) : i \in 1..Len(list)}

\* Every path the controller can write in place of the host's image.
SubstitutePaths ==
    PathsOf(placeholderImages, "Placeholder")
        \cup PathsOf(dummyFemaleImages, "Dummy-Female")
        \cup PathsOf(dummyMaleImages, "Dummy-Male")

\* Image img shows the override of state: a substitute of that state, or for
\* INVISIBLE the hidden style (which the image keeps when it was hidden
\* before the placeholder listing arrived).
ShowsOverride(state, img) ==
    CASE state = INVISIBLE ->
            \/ img.visibility = "hidden"
            \/ getPlaceholderPath # "" /\ img = Img(getPlaceholderPath, "visible")
      [] state = DUMMY_FEMALE ->
            img.src \in PathsOf(dummyFemaleImages, "Dummy-Female")
                /\ img.visibility = "visible"
      [] state = DUMMY_MALE ->
            img.src \in PathsOf(dummyMaleImages, "Dummy-Male")
                /\ img.visibility = "visible"
      [] OTHER -> FALSE

Tracked(id) == stateOrMain(id) # MAIN

\* C2: when the host has replaced the image of a non-MAIN identity by a
\* (non-empty) reference h, the watcher callback that delivers that change
\* leaves every image of the container showing the override and the
\* original-reference entry equal to h.
C2HostReplacementAnswered ==
    [][\A id \in SpriteIds :
          (/\ hostChange[id] \notin {None, ""}
           /\ Tracked(id)
           /\ id \in domExists
           /\ \E u \in Rand : watcherCallback(id, u))
          => /\ Has(originalSrcMap', id)
             /\ originalSrcMap'[id] = hostChange[id]
             /\ \A k \in 1..Len(domImgs'[id]) :
                   ShowsOverride(spriteStates[id], domImgs'[id][k])]_vars

\* C3: whenever no watcher callback is pending for a non-MAIN identity,
\* every image inside its container shows the override of its state.
C3OverrideSurvives ==
    \A id \in SpriteIds :
        (Tracked(id) /\ id \in domExists /\ ~Pending(id))
        => \A k \in 1..Len(domImgs[id]) :
              ShowsOverride(spriteStates[id], domImgs[id][k])

\* C4: an identity has a non-MAIN state in the state map exactly when a
\* watcher is registered for it; every registered watcher is connected and
\* the state map never holds MAIN.
C4WatcherInvariant ==
    /\ \A id \in SpriteIds : Has(spriteStates, id) <=> Has(spriteObservers, id)
    /\ \A id \in DOMAIN spriteObservers : spriteObservers[id].connected
    /\ \A id \in DOMAIN spriteStates :
          spriteStates[id] \in {DUMMY_FEMALE, DUMMY_MALE, INVISIBLE}

\* A tracked identity with a connected watcher holding undelivered records,
\* beside an identity that is in MAIN and has no watcher.
C4Witness ==
    \E a, b \in SpriteIds :
        /\ Tracked(a) /\ Pending(a)
        /\ ~Tracked(b) /\ ~Has(spriteObservers, b)
        /\ hostOps > 0

\* C5: between operations the original-reference map has an entry for an
\* identity exactly when the identity's state is not MAIN.
C5OriginalRefInvariant ==
    \A id \in SpriteIds : Has(originalSrcMap, id) <=> Tracked(id)

\* A watcher callback has just re-captured the reference of a tracked
\* identity while another identity is in MAIN without an entry.
C5Witness ==
    \E a, b \in SpriteIds :
        /\ last.op = "watcherCallback" /\ a \in last.ids
        /\ Tracked(a) /\ Has(originalSrcMap, a)
        /\ ~Tracked(b) /\ ~Has(originalSrcMap, b)

\* C6: an original-reference entry is never a substitute path (placeholder
\* or alternate asset) that the controller itself wrote.
C6OnlyHostRefs ==
    \A id \in DOMAIN originalSrcMap : originalSrcMap[id] \notin SubstitutePaths

\* C7: a second re-application, run right after a first one with no host
\* change in between, on a container whose images all show the override
\* already (the very src this re-application computes, or the hidden
\* style), changes neither map nor any image.
C7ReapplyIdempotent ==
    [][\A id \in SpriteIds, u \in Rand :
          (/\ last.op = "watcherCallback"
           /\ id \in last.ids
           /\ hostChange[id] = None
           /\ Tracked(id)
           /\ id \in domExists
           /\ Pending(id)
           /\ {IMG_ADDED, SRC_CHANGED} \cap spriteObservers[id].records # {}
           /\ LET src == getSpriteSrcForState(spriteStates[id], id, originalSrcMap, u)
              IN  \A k \in 1..Len(domImgs[id]) :
                     /\ ShowsOverride(spriteStates[id], domImgs[id][k])
                     /\ src # "" => domImgs[id][k].src = src
           /\ watcherCallback(id, u))
          => /\ spriteStates' = spriteStates
             /\ originalSrcMap' = originalSrcMap
             /\ domImgs' = domImgs]_vars

\* C8: no identity is in DUMMY_FEMALE while the Dummy-Female list is empty
\* nor in DUMMY_MALE while the Dummy-Male list is empty, and with both
\* lists empty every advance takes MAIN to INVISIBLE or INVISIBLE to MAIN.
C8NoEmptyAlternate ==
    \A id \in DOMAIN spriteStates :
        /\ spriteStates[id] = DUMMY_FEMALE => Len(dummyFemaleImages) > 0
        /\ spriteStates[id] = DUMMY_MALE => Len(dummyMaleImages) > 0

C8Alternates ==
    \A u \in Rand :
        (/\ Len(dummyFemaleImages) = 0
         /\ Len(dummyMaleImages) = 0
         /\ getFocusedSprite # None
         /\ getSpriteImage(getFocusedSprite) # 0
         /\ toggleHideSprite(u))
        => LET id == getFocusedSprite
           IN  \/ stateOrMain(id) = MAIN /\ stateOrMain(id)' = INVISIBLE
               \/ stateOrMain(id) = INVISIBLE /\ stateOrMain(id)' = MAIN

\* C8: no identity is ever in an alternate state whose asset list is empty,
\* and with both Dummy lists empty an advance only alternates between MAIN
\* and INVISIBLE.
C8EmptyAlternatesSkipped == []C8NoEmptyAlternate /\ [][C8Alternates]_vars

\* An identity has been advanced into DUMMY_MALE past the empty
\* Dummy-Female list.
C8Witness ==
    \E id \in DOMAIN spriteStates :
        /\ spriteStates[id] = DUMMY_MALE
        /\ Len(dummyFemaleImages) = 0
        /\ initPc = "done"

\* C9: right after resetHiddenSprites the state map, the original-reference
\* map and the watcher map are empty; and an identity without a state never
\* has a record waiting for a watcher callback, so no later host change
\* re-applies anything.
C9ResetClears ==
    /\ last.op = "resetHiddenSprites" =>
          /\ spriteStates = EmptyMap
          /\ originalSrcMap = EmptyMap
          /\ spriteObservers = EmptyMap
    /\ \A id \in SpriteIds : ~Has(spriteStates, id) => ~Pending(id)

\* A reset has just discarded the overrides of both identities.
C9Witness ==
    /\ last.op = "resetHiddenSprites"
    /\ last.ids = SpriteIds

\* C10: right after resetHiddenSprites, the first image of every identity
\* that was tracked and whose container still exists and holds an image
\* shows the original reference captured for it and is visible.
C10ResetRestores ==
    last.op = "resetHiddenSprites" =>
        \A id \in last.ids :
            (id \in domExists /\ Len(domImgs[id]) > 0)
            => /\ Has(last.orig, id)
               /\ domImgs[id][1] = Img(last.orig[id], "visible")

\* A reset has just restored an identity to a reference re-captured from
\* the host, while the container of another tracked identity was gone.
C10Witness ==
    /\ last.op = "resetHiddenSprites"
    /\ \E a, b \in last.ids :
          /\ a \in domExists /\ Len(domImgs[a]) > 0
          /\ last.orig[a] \in HostRefs \ {""}
          /\ domImgs[a][1].src = last.orig[a]
          /\ b \notin domExists

-----------------------------------------------------------------------------
(* Claims about the handlers' early returns and about initHideSprite. *)

\* The document offers getFocusedSprite nothing: no container carries the
\* focus class and neither the solo holder nor a group sprite holds an image.
NoCandidate ==
    /\ domExists \cap focusMarks = {}
    /\ \A id \in ({SoloId} \cup GroupIds) \cap domExists : Len(domImgs[id]) = 0

\* C11: toggleHideSprite in a document without a focus candidate shows the
\* warning and leaves the three maps and every image as they were.
C11NoFocusWarns ==
    [][(NoCandidate /\ \E u \in Rand : toggleHideSprite(u))
          => /\ "No focused sprite to hide." \in toastr'
             /\ spriteStates' = spriteStates
             /\ originalSrcMap' = originalSrcMap
             /\ spriteObservers' = spriteObservers
             /\ domImgs' = domImgs
             /\ domExists' = domExists]_vars

\* The warning has been shown while an identity still had an override.
C11Witness ==
    /\ NoCandidate
    /\ "No focused sprite to hide." \in toastr
    /\ spriteStates # EmptyMap

\* getFocusedSprite returns a container that holds no image.
FocusedWithoutImage ==
    /\ getFocusedSprite # None
    /\ getSpriteImage(getFocusedSprite) = 0

\* C12: toggleHideSprite on a focused container without an image changes no
\* map and no element, and a warning is on screen after the call.
C12NoImageWarns ==
    [][(FocusedWithoutImage /\ \E u \in Rand : toggleHideSprite(u))
          => /\ spriteStates' = spriteStates
             /\ originalSrcMap' = originalSrcMap
             /\ spriteObservers' = spriteObservers
             /\ domImgs' = domImgs
             /\ toastr' # {}]_vars

\* The part of C12 without the warning: nothing is changed.
C12NoImageNoOp ==
    [][(FocusedWithoutImage /\ \E u \in Rand : toggleHideSprite(u))
          => UNCHANGED <<spriteStates, originalSrcMap, spriteObservers, domImgs,
                         domExists, toastr>>]_vars

\* C13: a fetch that fails leaves its own list empty (and its alternate
\* unavailable), leaves the other lists and flags as they were, and
\* initHideSprite goes on to its next step; a list only changes in its own
\* fetch, to the listing that fetch returned; and after initHideSprite an
\* alternate is available exactly when its list is non-empty, so the cycle
\* runs over the remaining states.
C13FetchSteps ==
    /\ \A r \in Outcomes(PlaceholderListings) :
          fetchPlaceholderImages(r)
          => /\ placeholderImages' = (IF r.ok THEN r.list ELSE <<>>)
             /\ UNCHANGED <<dummyFemaleImages, dummyMaleImages, dummyAvailability>>
             /\ initPc' = "fetchDummyFemale"
    /\ \A r \in Outcomes(DummyFemaleListings) :
          fetchDummyFemale(r)
          => /\ dummyFemaleImages' = (IF r.ok THEN r.list ELSE <<>>)
             /\ ~r.ok => ~dummyAvailability'.female
             /\ dummyAvailability'.male = dummyAvailability.male
             /\ UNCHANGED <<placeholderImages, dummyMaleImages>>
             /\ initPc' = "fetchDummyMale"
    /\ \A r \in Outcomes(DummyMaleListings) :
          fetchDummyMale(r)
          => /\ dummyMaleImages' = (IF r.ok THEN r.list ELSE <<>>)
             /\ ~r.ok => ~dummyAvailability'.male
             /\ dummyAvailability'.female = dummyAvailability.female
             /\ UNCHANGED <<placeholderImages, dummyFemaleImages>>
             /\ initPc' = "done"
    /\ placeholderImages' # placeholderImages => initPc = "fetchPlaceholderImages"
    /\ dummyFemaleImages' # dummyFemaleImages => initPc = "fetchDummyFemale"
    /\ dummyMaleImages' # dummyMaleImages => initPc = "fetchDummyMale"

C13Degraded ==
    /\ dummyAvailability.female <=> Len(dummyFemaleImages) > 0
    /\ dummyAvailability.male <=> Len(dummyMaleImages) > 0
    /\ \A id \in DOMAIN spriteStates :
          /\ spriteStates[id] = DUMMY_FEMALE => dummyAvailability.female
          /\ spriteStates[id] = DUMMY_MALE => dummyAvailability.male

\* C13: a failed fetch leaves its list empty and its alternate unavailable
\* without raising, and no identity is then ever put into that alternate.
C13FetchFailureDegrades == [][C13FetchSteps]_vars /\ []C13Degraded

\* initHideSprite is over, the Placeholder and Dummy-Female lists are empty
\* as their failed fetches leave them, the Dummy-Male list is loaded and an
\* identity has been cycled into DUMMY_MALE.
C13Witness ==
    /\ initPc = "done"
    /\ placeholderImages = <<>>
    /\ dummyFemaleImages = <<>> /\ ~dummyAvailability.female
    /\ dummyMaleImages # <<>> /\ dummyAvailability.male
    /\ \E id \in DOMAIN spriteStates : spriteStates[id] = DUMMY_MALE
    /\ toastr = {}

\* A toggle puts an identity into an alternate state only when that
\* alternate's list is non-empty.
C14EntersLoadedAlternate ==
    \A u \in Rand, id \in SpriteIds :
        toggleHideSprite(u) =>
            /\ (stateOrMain(id)' = DUMMY_FEMALE /\ stateOrMain(id) # DUMMY_FEMALE)
                  => Len(dummyFemaleImages) > 0
            /\ (stateOrMain(id)' = DUMMY_MALE /\ stateOrMain(id) # DUMMY_MALE)
                  => Len(dummyMaleImages) > 0

\* While initHideSprite is unfinished, a toggle that takes the focused
\* identity from a non-MAIN state back to MAIN leaves no map entry for it and
\* leaves its image visible with the (non-empty) reference captured for it,
\* which is a host reference and not a substitute path.
C14ReturnsOriginal ==
    \A u \in Rand :
        (/\ initPc # "done"
         /\ getFocusedSprite # None
         /\ getSpriteImage(getFocusedSprite) # 0
         /\ Tracked(getFocusedSprite)
         /\ originalSrcMap[getFocusedSprite] # ""
         /\ getNextState(stateOrMain(getFocusedSprite)) = MAIN
         /\ toggleHideSprite(u))
        => LET id == getFocusedSprite
               r == originalSrcMap[id]
           IN  /\ ~Has(spriteStates', id)
               /\ ~Has(originalSrcMap', id)
               /\ ~Has(spriteObservers', id)
               /\ r \notin SubstitutePaths
               /\ domImgs'[id][1] = Img(r, "visible")

\* C14: whatever the interleaving of toggleHideSprite and watcher callbacks
\* with the steps of initHideSprite, the watcher invariant and the
\* original-reference invariant hold, an identity enters an alternate state
\* only if that alternate's list is non-empty, and an identity that entered
\* a non-MAIN state before initHideSprite finished is cycled back to MAIN
\* with its original reference.
C14ToleratesUnfinishedInit ==
    /\ []C4WatcherInvariant
    /\ []C5OriginalRefInvariant
    /\ [][C14EntersLoadedAlternate /\ C14ReturnsOriginal]_vars

\* The same as long as the host has not changed the document.
C14WithoutHostChange ==
    /\ []C4WatcherInvariant
    /\ []C5OriginalRefInvariant
    /\ [][C14EntersLoadedAlternate /\ (hostOps = 0 => C14ReturnsOriginal)]_vars

-----------------------------------------------------------------------------
(* Claims about the button. *)

\* At most one button; an expired body observer holds no record.
C15OneButton ==
    /\ btn.count <= 1
    /\ \A i \in 1..Len(setupWatch) :
          ~setupWatch[i].connected => ~setupWatch[i].records

\* An expired body observer stays as it is, and a button is only ever added
\* by a call of setupHideSpriteButton or by the callback of an observer that
\* is still connected.
C15ExpiredWatchIdle ==
    /\ \A i \in 1..Len(setupWatch) :
          ~setupWatch[i].connected => setupWatch'[i] = setupWatch[i]
    /\ btn'.count > btn.count =>
          \/ Len(setupWatch') > Len(setupWatch)
          \/ \E i \in 1..Len(setupWatch) :
                setupWatch[i].connected /\ setupWatch[i].records

\* C15: however many body-observer callbacks fire and however often
\* setupHideSpriteButton is called there is at most one button, and once
\* the timer of a call has fired its observer is disconnected and no later
\* change of the document makes it add a button.
C15ButtonOnce == []C15OneButton /\ [][C15ExpiredWatchIdle]_vars

\* setupHideSpriteButton was called MaxSetups times, every timer has fired,
\* and #rightSendForm has come back since without a button.
C15Witness ==
    /\ Len(setupWatch) = MaxSetups
    /\ \A i \in 1..Len(setupWatch) : ~setupWatch[i].connected
    /\ rightSendForm
    /\ btn.count = 0

-----------------------------------------------------------------------------
(* Claims about single functions. *)

\* C16: after the first advance of an identity that was in MAIN with host
\* reference r, when both alternates are unavailable and the placeholder
\* list is non-empty, the state map holds INVISIBLE for it, its
\* original-reference entry is r, and its image is visible with the path of
\* the first placeholder: /characters/Placeholder/f for a bare filename f,
\* the descriptor's path for a descriptor object that has one.
C16FirstAdvance ==
    (/\ trip.n = 1
     /\ Len(dummyFemaleImages) = 0 /\ Len(dummyMaleImages) = 0
     /\ Len(placeholderImages) > 0)
    => LET id == getFocusedSprite
           asset == placeholderImages[1]
       IN  /\ Has(spriteStates, id) /\ spriteStates[id] = INVISIBLE
           /\ Has(originalSrcMap, id) /\ originalSrcMap[id] = trip.start
           /\ domImgs[id][1].visibility = "visible"
           /\ asset.kind = "string"
                 => domImgs[id][1].src = "/characters/Placeholder/" \o asset.name
           /\ (asset.kind = "object" /\ asset.path # "")
                 => domImgs[id][1].src = asset.path

\* The first advance has substituted the path of a descriptor object that
\* is followed by another asset in the list.
C16Witness ==
    /\ trip.n = 1
    /\ trip.start = InitialRef
    /\ Len(placeholderImages) > 1
    /\ placeholderImages[1].kind = "object"
    /\ \E id \in DOMAIN spriteStates :
          /\ spriteStates[id] = INVISIBLE
          /\ domImgs[id][1].src = placeholderImages[1].path

\* The five kinds of candidate of the focus resolver, in its order.
MarkedGroup == {id \in GroupIds : id \in domExists /\ id \in focusMarks}
MarkedSolo == SoloId \in domExists /\ SoloId \in focusMarks
MarkedUser == UserId \in domExists /\ UserId \in focusMarks
SoloWithImage == SoloId \in domExists /\ Len(domImgs[SoloId]) > 0
GroupWithImage == {id \in GroupIds : id \in domExists /\ Len(domImgs[id]) > 0}

\* id comes before every other member of ids in document order.
FirstInDocument(id, ids) ==
    /\ id \in ids
    /\ \A i, j \in 1..Len(GroupOrder) :
          (GroupOrder[i] = id /\ GroupOrder[j] \in ids) => i <= j

\* C17: getFocusedSprite returns the first candidate that exists, in the
\* order focus-marked group sprite, focus-marked solo holder, focus-marked
\* user sprite, solo holder with an image, first group container with an
\* image; it returns none exactly when there is no candidate.
C17ResolverPriority ==
    last.op = "getFocusedSprite" =>
        LET result == CHOOSE x \in last.ids : TRUE
        IN  /\ MarkedGroup # {} => FirstInDocument(result, MarkedGroup)
            /\ (MarkedGroup = {} /\ MarkedSolo) => result = SoloId
            /\ (MarkedGroup = {} /\ ~MarkedSolo /\ MarkedUser) => result = UserId
            /\ (MarkedGroup = {} /\ ~MarkedSolo /\ ~MarkedUser /\ SoloWithImage)
                  => result = SoloId
            /\ (MarkedGroup = {} /\ ~MarkedSolo /\ ~MarkedUser /\ ~SoloWithImage
                    /\ GroupWithImage # {})
                  => FirstInDocument(result, GroupWithImage)
            /\ result = None <=>
                  (MarkedGroup = {} /\ ~MarkedSolo /\ ~MarkedUser /\ ~SoloWithImage
                     /\ GroupWithImage = {})

\* The resolver has returned the focus-marked solo holder although the
\* user sprite is marked too and both group containers hold an image.
C17Witness ==
    /\ last.op = "getFocusedSprite"
    /\ last.ids = {SoloId}
    /\ MarkedGroup = {} /\ MarkedSolo /\ MarkedUser
    /\ GroupWithImage = GroupIds

\* A state of the cycle is available: MAIN and INVISIBLE always, an
\* alternate when its list is non-empty.
Available(state) ==
    \/ state \in {MAIN, INVISIBLE}
    \/ state = DUMMY_FEMALE /\ Len(dummyFemaleImages) > 0
    \/ state = DUMMY_MALE /\ Len(dummyMaleImages) > 0

\* The state k places after state in the cyclic order MAIN, DUMMY_FEMALE,
\* DUMMY_MALE, INVISIBLE, and the first available state after state.
PlacesAfter(state, k) == (state + k) % 4
FirstAvailableAfter(state) ==
    LET k == CHOOSE n \in 1..4 :
                /\ Available(PlacesAfter(state, n))
                /\ \A m \in 1..(n - 1) : ~Available(PlacesAfter(state, m))
    IN  PlacesAfter(state, k)

C18NextOfEveryState ==
    /\ \A state \in {MAIN, DUMMY_FEMALE, DUMMY_MALE, INVISIBLE} :
          getNextState(state) = FirstAvailableAfter(state)
    /\ getNextState(INVISIBLE) = MAIN

C18AdvanceFollowsOrder ==
    \A u \in Rand :
        advance(u) =>
            stateOrMain(getFocusedSprite)'
                = FirstAvailableAfter(stateOrMain(getFocusedSprite))

\* C18: for every current state (an absent entry read as MAIN) and every
\* availability of the alternates, getNextState returns the first
\* available state after the current one in the cyclic order MAIN,
\* DUMMY_FEMALE, DUMMY_MALE, INVISIBLE, the successor of INVISIBLE being
\* MAIN; and every advance moves the focused identity to that state.
C18CycleOrder == []C18NextOfEveryState /\ [][C18AdvanceFollowsOrder]_vars

\* The focused identity has been advanced from MAIN straight to DUMMY_MALE,
\* the Dummy-Female list being empty.
C18Witness ==
    /\ trip.n = 1
    /\ Len(dummyFemaleImages) = 0
    /\ stateOrMain(getFocusedSprite) = DUMMY_MALE

\* The style and src the claim gives an image when state is applied to it.
StyledAsClaimed(state, before, after) ==
    IF state = INVISIBLE /\ Len(placeholderImages) = 0
    THEN after = Img(before.src, "hidden")
    ELSE after.visibility = "visible"

\* An advance (a toggle that gets as far as applySpriteState, and so
\* changes the state map) styles the image it is applied to.
C19AdvanceStyles ==
    \A u \in Rand :
        (/\ spriteStates' # spriteStates
         /\ getFocusedSprite # None
         /\ getSpriteImage(getFocusedSprite) # 0
         /\ toggleHideSprite(u))
        => LET id == getFocusedSprite
               img == getSpriteImage(id)
           IN  StyledAsClaimed(getNextState(stateOrMain(id)),
                               domImgs[id][img], domImgs'[id][img])

\* A re-application (a watcher callback that got as far as
\* reapplySpriteState for the container) styles every image of the container.
C19ReapplyStyles ==
    \A id \in SpriteIds :
        (/\ last'.op = "watcherCallback"
         /\ id \in last'.ids)
        => /\ Len(domImgs'[id]) = Len(domImgs[id])
           /\ \A k \in 1..Len(domImgs[id]) :
                 StyledAsClaimed(spriteStates[id], domImgs[id][k], domImgs'[id][k])

\* C19: when an advance or a re-application applies INVISIBLE and the
\* placeholder list is empty, the image gets the hidden style and keeps its
\* src; when the placeholder list is non-empty or the state applied is not
\* INVISIBLE, the image gets the visible style.
C19HiddenStyleIffNoPlaceholder == [][C19AdvanceStyles /\ C19ReapplyStyles]_vars

\* A re-application has just hidden by style an image the host had given a
\* new src, the Placeholder list being empty after initHideSprite.
C19Witness ==
    /\ last.op = "watcherCallback"
    /\ initPc = "done"
    /\ Len(placeholderImages) = 0
    /\ \E id \in last.ids :
          /\ stateOrMain(id) = INVISIBLE
          /\ Len(domImgs[id]) > 0
          /\ domImgs[id][1] = Img("/characters/Bob/sad.png", "hidden")

-----------------------------------------------------------------------------
(* C20: the button icon. *)

StateIcons == {"fa-eye", "fa-eye-slash", "fa-venus", "fa-mars"}

\* The state the icon is claimed to show: that of the focused identity, MAIN
\* when it has no entry in the state map or when nothing is focused.
FocusedState ==
    IF getFocusedSprite = None THEN MAIN ELSE stateOrMain(getFocusedSprite)

\* The button, if there is one, carries exactly the icon of FocusedState.
IconMirrors ==
    btn.count > 0 => btn.classes \cap StateIcons = {getIconForState(FocusedState)}

\* C20: after every toggleHideSprite, resetHiddenSprites and
\* syncHideSpriteButtonState, the button, if it exists, carries exactly one of
\* the four state icons, the icon of the focused identity's state (the MAIN
\* icon when the identity has no entry or when nothing is focused).
C20IconMirrorsFocused ==
    [][((\E u \in Rand : toggleHideSprite(u))
        \/ resetHiddenSprites
        \/ syncHideSpriteButtonState) => IconMirrors']_vars

\* The same after resetHiddenSprites, after syncHideSpriteButtonState and
\* after a toggle that found a focused element with an image.
C20IconAfterRefresh ==
    [][((\E u \in Rand : /\ getFocusedSprite # None
                         /\ getSpriteImage(getFocusedSprite) # 0
                         /\ toggleHideSprite(u))
        \/ resetHiddenSprites
        \/ syncHideSpriteButtonState) => IconMirrors']_vars

-----------------------------------------------------------------------------
(* C21: the callbacks after one host replacement. *)

\* The host has made its replacement on an overridden sprite.
Replaced == hostOps > 0

\* C21: after a single host image replacement on an identity in a non-MAIN
\* state, and no further host change, the watcher callbacks come to an end:
\* a state is reached in which no record waits for any watcher.
C21CallbacksQuiesce == Replaced ~> NoPending

\* The replacement hit a sprite in INVISIBLE while the Placeholder list is
\* non-empty.
ReplacedUnderPlaceholder ==
    /\ Replaced
    /\ Len(placeholderImages) > 0
    /\ \E id \in SpriteIds : Pending(id) /\ stateOrMain(id) = INVISIBLE

\* In every other case the callbacks do come to an end.
C21QuiesceOtherwise == (Replaced /\ ~ReplacedUnderPlaceholder) ~> NoPending

\* Under the placeholder the records never stop: each callback leaves one.
C21PlaceholderNeverQuiesces ==
    [][ReplacedUnderPlaceholder => ReplacedUnderPlaceholder']_vars

-----------------------------------------------------------------------------
(* C22: what an override leaves behind. *)

\* Image k of a container shows no trace of an override.
Clean(id, k) ==
    /\ domImgs[id][k].visibility = "visible"
    /\ domImgs[id][k].src \notin SubstitutePaths

\* C22: no image inside the element of an identity that is in MAIN (it was
\* never overridden, or it left its override by an advance or by
\* resetHiddenSprites) carries the hidden style or a substitute reference.
C22NoResidue ==
    \A id \in domExists :
        stateOrMain(id) = MAIN => \A k \in 1..Len(domImgs[id]) : Clean(id, k)

\* The same for the images after the first one of the element.
C22NoResidueBeyondFirst ==
    \A id \in domExists :
        stateOrMain(id) = MAIN => \A k \in 2..Len(domImgs[id]) : Clean(id, k)

-----------------------------------------------------------------------------
(* C23: one identity at a time. *)

\* The entry of a map for a key, or nothing.
Entry(m, k) == IF Has(m, k) THEN <<m[k]>> ELSE <<>>

\* Everything the controller keeps or shows for identity b is as it was.
Untouched(b) ==
    /\ Entry(spriteStates', b) = Entry(spriteStates, b)
    /\ Entry(originalSrcMap', b) = Entry(originalSrcMap, b)
    /\ Entry(spriteObservers', b) = Entry(spriteObservers, b)
    /\ domImgs'[b] = domImgs[b]

C23ToggleIsLocal ==
    \A u \in Rand :
        toggleHideSprite(u)
        => \A b \in SpriteIds \ {getFocusedSprite} : Untouched(b)

C23CallbackIsLocal ==
    \A a \in SpriteIds, u \in Rand :
        watcherCallback(a, u) => \A b \in SpriteIds \ {a} : Untouched(b)

\* C23: toggleHideSprite on the focused identity, and a watcher callback of
\* an identity, leave the state-map entry, the original-reference entry, the
\* watcher and the images of every other identity as they were.
C23IdentitiesIndependent == [][C23ToggleIsLocal /\ C23CallbackIsLocal]_vars

\* A watcher callback has just re-applied the override of one identity
\* while the other identity, advanced on its own, is in another override.
C23Witness ==
    \E a, b \in SpriteIds :
        /\ a # b
        /\ last.op = "watcherCallback" /\ a \in last.ids
        /\ Tracked(a) /\ Tracked(b)
        /\ spriteStates[a] # spriteStates[b]
        /\ Has(originalSrcMap, b)
        /\ Has(spriteObservers, b)

-----------------------------------------------------------------------------
(* C24: the four-state controller against the two-state controller. *)

SrcsOf(imgs) == [k \in 1..Len(imgs) |-> imgs[k].src]

\* What the two versions are claimed to agree on.
SameHidden ==
    {id \in SpriteIds : stateOrMain(id) = INVISIBLE} = old.hiddenSpriteIds
SameOriginals == originalSrcMap = old.originalSrcMap
SameWatched == DOMAIN spriteObservers = DOMAIN old.spriteObservers
SameImages == \A id \in SpriteIds : SrcsOf(domImgs[id]) = old.domImgs[id]

\* C24: with both Dummy lists empty and a non-empty Placeholder list, after
\* every toggle, reset and host image replacement with its watcher
\* callbacks (the two-state controller has no callback waiting), the
\* identities in INVISIBLE are the hidden set of the two-state controller,
\* and the original-reference maps, the watched identities and the src of
\* every image are the same in both.
C24RefinesTwoState ==
    oldNoPending => SameHidden /\ SameOriginals /\ SameWatched /\ SameImages

\* All of it.
Same == SameHidden /\ SameOriginals /\ SameWatched /\ SameImages

\* A toggle or a reset of two controllers that agree leaves them agreeing:
\* the versions part ways in the watcher callbacks only.
C24TogglesAndResetsAgree ==
    [][(/\ Same
        /\ hostOps' = hostOps
        /\ last'.op # "watcherCallback") => Same']_vars

====
